---- MODULE Spec2Model ----
(***************************************************************************)
(* distrobuild scheduler: the two periodic tasks of                        *)
(* distrobuild_scheduler/periodic_tasks.py, check_build_status and         *)
(* sign_unsigned_builds, with the record store (Build, Package), the koji  *)
(* hub, the MBS service and the signer as their environment.               *)
(*                                                                         *)
(* Both tasks are asyncio coroutines of one event loop: they interleave    *)
(* at their awaits.  Each unit of work runs under tortoise's @atomic():    *)
(* its writes sit in a transaction buffer until the decorated coroutine    *)
(* returns (commit) or raises (rollback).                                  *)
(***************************************************************************)
EXTENDS Integers, Sequences, FiniteSets, TLC

\* ---------------------------------------------------------------- bounds
NBuilds == 2
NPackages == 2
NumTasks == 2
NumRpms == 1
MaxTime == 2

Builds == 1..NBuilds
Packages == 1..NPackages
Tasks == 1..NumTasks
Rpms == 1..NumRpms

\* Build.package_id: the owning Package of a Build (many builds per package).
package_id(b) == ((b - 1) % NPackages) + 1

\* BuildStatus, as this subsystem sees it.
BUILDING == "BUILDING"
SUCCEEDED == "SUCCEEDED"
FAILED == "FAILED"
CANCELLED == "CANCELLED"
BuildStatus == {BUILDING, SUCCEEDED, FAILED, CANCELLED}
TerminalStatus == {SUCCEEDED, FAILED, CANCELLED}

\* koji.TASK_STATES the code tells apart; a FAILED task carries the error its
\* result raises (getTaskResult): BuildError, Fault, GenericError, or none.
KojiOpen == {"OPEN"}
KojiFailed == {"FAILED_BuildError", "FAILED_Fault", "FAILED_GenericError", "FAILED_NoError"}
KojiStates == KojiOpen \cup {"CLOSED", "CANCELED"} \cup KojiFailed
\* MBS state_name values the code tells apart.
MbsStates == {"build", "ready", "failed"}

NoBuild == [id |-> 0, status |-> "none", signed |-> FALSE]
NoTx == [build |-> NoBuild, last_build |-> -1]
\* No unit of work of the running cycle has raised.
NoRaise == [id |-> 0, at |-> "none"]

VARIABLES
    \* record store (committed rows)
    status,         \* Build.status
    signed,         \* Build.signed
    last_build,     \* Package.last_build (0: null)
    koji_id,        \* Build.koji_id (0: None)
    mbs_id,         \* Build.mbs_id (0: None)
    \* environment
    now,            \* datetime.datetime.now()
    backend_state,  \* koji task state / MBS state_name of each build
    tagged,         \* <<b, t>>: the compose tag is in the build task's tag_listing
    has_sig,        \* <<b, t, r>>: the rpm has a signature under sigul_key_id
    listed,         \* packages added to the compose tag's package list
    disable_sigul,  \* settings.disable_sigul
    \* check_build_status
    st_pc, st_queue, st_build, st_info, st_tx, st_exc,
    \* sign_unsigned_builds
    sg_pc, sg_queue, sg_build, sg_tx, sg_task, sg_rpm, should_tag,
    \* observation
    calls,          \* koji/signer calls of the current Signing Coordinator invocation
    st_selected,    \* the builds the running status cycle fetched
    st_dispatched,  \* those it has passed to atomic_check_build_status
    st_raised,      \* the build whose unit raised in it, and where
    sg_selected, sg_dispatched, sg_raised   \* the same of the signing cycle

store == <<status, signed, last_build, koji_id, mbs_id>>
env == <<now, backend_state, disable_sigul>>
kojihub == <<tagged, has_sig, listed>>
st_vars == <<st_pc, st_queue, st_build, st_info, st_tx, st_exc>>
sg_vars == <<sg_pc, sg_queue, sg_build, sg_tx, sg_task, sg_rpm, should_tag>>
st_obs == <<st_selected, st_dispatched, st_raised>>
sg_obs == <<calls, sg_selected, sg_dispatched, sg_raised>>
vars == <<store, env, kojihub, st_vars, sg_vars, st_obs, sg_obs>>

\* ------------------------------------------------------------ helpers
\* The sequences that hold each element of S once: the orders in which a
\* query without ORDER BY may return the rows S.
Perms(S) == {q \in [1..Cardinality(S) -> S] : \A i, j \in 1..Cardinality(S) : q[i] = q[j] => i = j}

\* Mutant of BuildObj: the object comes back with the status field at its
\* default instead of the row's value.
BuildObjDefaultStatus(b) == [id |-> b, status |-> BUILDING, signed |-> signed[b]]

\* A Build object as a query returns it: the row's fields at that moment.
BuildObj(b) == [id |-> b, status |-> status[b], signed |-> signed[b]]

TaskRefs == Builds \X Tasks
RpmRefs == Builds \X Tasks \X Rpms

\* ------------------------------------------------------------ initial state
Init ==
    /\ status = [b \in Builds |-> BUILDING]
    /\ signed = [b \in Builds |-> FALSE]
    /\ last_build = [p \in Packages |-> 0]
    /\ koji_id \in [Builds -> 0..1]
    /\ mbs_id = [b \in Builds |-> 1 - koji_id[b]]
    /\ now = 1
    /\ backend_state = [b \in Builds |-> IF koji_id[b] # 0 THEN "OPEN" ELSE "build"]
    /\ tagged = [x \in TaskRefs |-> FALSE]
    /\ has_sig = [x \in RpmRefs |-> FALSE]
    /\ listed = {}
    /\ disable_sigul \in BOOLEAN
    /\ st_pc = "fetch" /\ st_queue = <<>> /\ st_build = NoBuild /\ st_tx = NoTx
    /\ st_info = "none" /\ st_exc = FALSE
    /\ sg_pc = "start" /\ sg_queue = <<>> /\ sg_build = NoBuild /\ sg_tx = NoTx
    /\ sg_task = 0 /\ sg_rpm = 0 /\ should_tag = FALSE
    /\ calls = <<>>
    /\ st_selected = {} /\ st_dispatched = {} /\ st_raised = NoRaise
    /\ sg_selected = {} /\ sg_dispatched = {} /\ sg_raised = NoRaise

\* ------------------------------------------------------------ environment
\* A koji task or an MBS build reaches one of its final states.
BackendAdvance(b) ==
    /\ \/ /\ backend_state[b] = "OPEN"
          /\ \E s \in KojiStates \ KojiOpen : backend_state' = [backend_state EXCEPT ![b] = s]
       \/ /\ backend_state[b] = "build"
          /\ \E s \in MbsStates \ {"build"} : backend_state' = [backend_state EXCEPT ![b] = s]
    /\ UNCHANGED <<store, now, disable_sigul, kojihub, st_vars, sg_vars, st_obs, sg_obs>>

\* Time passes.
Tick ==
    /\ now < MaxTime
    /\ now' = now + 1
    /\ UNCHANGED <<store, backend_state, disable_sigul, kojihub, st_vars, sg_vars, st_obs, sg_obs>>

\* ------------------------------------------------------------ @atomic()
\* Commit of a unit of work: the buffered writes reach the rows.
CommitBuild(tx) ==
    IF tx.build.id = 0 THEN UNCHANGED <<status, signed>>
    ELSE /\ status' = [status EXCEPT ![tx.build.id] = tx.build.status]
         /\ signed' = [signed EXCEPT ![tx.build.id] = tx.build.signed]

CommitPackage(tx, p) ==
    IF tx.last_build = -1 THEN UNCHANGED last_build
    ELSE last_build' = [last_build EXCEPT ![p] = tx.last_build]

\* ------------------------------------------------------------ check_build_status
\* Mutant of StatusCandidates: the query lacks status=BuildStatus.BUILDING.
StatusCandidatesAll == Builds

\* builds = await Build.filter(status=BuildStatus.BUILDING).all()
StatusCandidates == {b \in Builds : status[b] = BUILDING}

StatusFetch ==
    /\ st_pc = "fetch"
    /\ \E q \in Perms(StatusCandidates) :
          st_queue' = [i \in 1..Len(q) |-> BuildObj(q[i])]
    /\ st_pc' = "loop"
    /\ st_selected' = StatusCandidates
    /\ st_dispatched' = {}
    /\ st_raised' = NoRaise
    /\ UNCHANGED <<store, env, kojihub, st_build, st_info, st_tx, st_exc, sg_vars, sg_obs>>

\* Mutant of StatusRaise: no @atomic(), the saves made before the exception
\* stay in the rows.
StatusRaiseKeepsWrites(b) ==
    /\ CommitBuild(st_tx)
    /\ CommitPackage(st_tx, package_id(b))
    /\ st_tx' = NoTx
    /\ st_build' = NoBuild
    /\ st_info' = "none"
    /\ st_exc' = FALSE
    /\ st_queue' = <<>>
    /\ st_pc' = "sleep"
    /\ st_raised' = [id |-> b, at |-> st_pc]

\* An exception leaves atomic_check_build_status: @atomic() rolls the
\* transaction back, and the except clause around the whole for loop logs
\* it, which drops the builds that were still to come.
StatusRaise(b) ==
    /\ UNCHANGED <<status, signed, last_build>>
    /\ st_tx' = NoTx
    /\ st_build' = NoBuild
    /\ st_info' = "none"
    /\ st_exc' = FALSE
    /\ st_queue' = <<>>
    /\ st_pc' = "sleep"
    /\ st_raised' = [id |-> b, at |-> st_pc]

\* Mutant of KojiStatus: koji.GenericError is handled like koji.BuildError.
KojiStatusGenericFailed(old, state) ==
    IF state = "CLOSED" THEN SUCCEEDED
    ELSE IF state = "CANCELED" THEN CANCELLED
    ELSE IF state \in KojiFailed \ {"FAILED_NoError"} THEN FAILED
    ELSE old

\* The status the task-backed branch leaves in build.status.  A FAILED
\* task's state carries what getTaskResult raises.
KojiStatus(old, state) ==
    IF state = "CLOSED" THEN SUCCEEDED
    ELSE IF state = "CANCELED" THEN CANCELLED
    ELSE IF state \in {"FAILED_BuildError", "FAILED_Fault"} THEN FAILED
    ELSE IF state = "FAILED_GenericError" THEN CANCELLED
    ELSE old

\* Mutant of MbsStatus: a failed module build is taken for a cancelled one.
MbsStatusFailedCancelled(old, state) ==
    IF state = "ready" THEN SUCCEEDED
    ELSE IF state = "failed" THEN CANCELLED
    ELSE old

\* The status the module-backed branch leaves in build.status.
MbsStatus(old, state) ==
    IF state = "ready" THEN SUCCEEDED
    ELSE IF state = "failed" THEN FAILED
    ELSE old

\* Mutant of KojiSaves: build.save() stands in the except clauses, not in
\* a finally clause.
KojiSavesOnError(state) == state \in ({"CLOSED", "CANCELED"} \cup KojiFailed) \ {"FAILED_NoError"}

\* Whether the branch taken ends in build.save().
KojiSaves(state) == state \in {"CLOSED", "CANCELED"} \cup KojiFailed
MbsSaves(state) == state \in {"ready", "failed"}

\* for build in builds: await atomic_check_build_status(build), up to its
\* first build.save(): the backend is asked (st_info: task_info["state"] or
\* build_info["state_name"]) and build.status is set.
\* rpc = "error": getTaskInfo / get_build raises.  result_error: getTaskResult
\* raises something that no except clause names (the finally still saves).
StatusDispatch ==
    /\ st_pc = "loop"
    /\ st_queue # <<>>
    /\ LET build == Head(st_queue)
           b == build.id
           state == backend_state[b]
       IN
       /\ st_dispatched' = st_dispatched \cup {b}
       /\ \E rpc \in {"ok", "error"}, result_error \in BOOLEAN :
          IF rpc = "error"
          THEN /\ ~result_error
               /\ StatusRaise(b)
          ELSE /\ result_error => (koji_id[b] # 0 /\ state \in KojiFailed)
               /\ st_queue' = Tail(st_queue)
               /\ st_tx' = NoTx
               /\ st_raised' = st_raised
               /\ st_exc' = result_error
               /\ UNCHANGED <<status, signed, last_build>>
               /\ IF koji_id[b] # 0
                  THEN /\ st_build' = [build EXCEPT !.status =
                                          IF result_error THEN build.status
                                          ELSE KojiStatus(build.status, state)]
                       /\ st_info' = state
                       /\ st_pc' = IF KojiSaves(state) THEN "save" ELSE "commit"
                  ELSE IF mbs_id[b] # 0
                  THEN /\ st_build' = [build EXCEPT !.status = MbsStatus(build.status, state)]
                       /\ st_info' = state
                       /\ st_pc' = IF MbsSaves(state) THEN "save" ELSE "commit"
                  ELSE /\ st_build' = build
                       /\ st_info' = "none"
                       /\ st_pc' = "commit"
    /\ UNCHANGED <<koji_id, mbs_id, env, kojihub, st_selected, sg_vars, sg_obs>>

\* Mutant of StatusSave: the package's last_build is set after every save,
\* not only in the branches that set SUCCEEDED.
StatusSaveAlwaysPackage ==
    /\ st_pc = "save"
    /\ IF st_exc
       THEN /\ StatusRaise(st_build.id)
       ELSE /\ st_tx' = [st_tx EXCEPT !.build = st_build]
            /\ st_pc' = "package"
            /\ UNCHANGED <<status, signed, last_build, st_queue, st_build, st_info,
                           st_exc, st_raised>>
    /\ UNCHANGED <<koji_id, mbs_id, env, kojihub, st_selected, st_dispatched, sg_vars, sg_obs>>

\* await build.save(): the whole row of the object goes to the transaction.
\* After the save of the finally clause a pending exception goes on.
StatusSave ==
    /\ st_pc = "save"
    /\ IF st_exc
       THEN /\ StatusRaise(st_build.id)
       ELSE /\ st_tx' = [st_tx EXCEPT !.build = st_build]
            /\ st_pc' = IF st_build.status = SUCCEEDED THEN "package" ELSE "commit"
            /\ UNCHANGED <<status, signed, last_build, st_queue, st_build, st_info,
                           st_exc, st_raised>>
    /\ UNCHANGED <<koji_id, mbs_id, env, kojihub, st_selected, st_dispatched, sg_vars, sg_obs>>

\* package = await Package.filter(id=build.package_id).get()
\* package.last_build = datetime.datetime.now(); await package.save()
\* found = FALSE: the lookup raises.
StatusPackage ==
    /\ st_pc = "package"
    /\ \E found \in BOOLEAN :
          IF found
          THEN /\ st_tx' = [st_tx EXCEPT !.last_build = now]
               /\ st_pc' = "commit"
               /\ UNCHANGED <<status, signed, last_build, st_queue, st_build, st_info,
                              st_exc, st_raised>>
          ELSE StatusRaise(st_build.id)
    /\ UNCHANGED <<koji_id, mbs_id, env, kojihub, st_selected, st_dispatched, sg_vars, sg_obs>>

\* atomic_check_build_status returns: @atomic() commits.
StatusCommit ==
    /\ st_pc = "commit"
    /\ CommitBuild(st_tx)
    /\ CommitPackage(st_tx, package_id(st_build.id))
    /\ st_tx' = NoTx
    /\ st_build' = NoBuild
    /\ st_info' = "none"
    /\ st_pc' = "loop"
    /\ UNCHANGED <<koji_id, mbs_id, env, kojihub, st_queue, st_exc, st_obs, sg_vars, sg_obs>>

\* The for loop is over: await asyncio.sleep(60 * 5).
StatusLoopEnd ==
    /\ st_pc = "loop"
    /\ st_queue = <<>>
    /\ st_pc' = "sleep"
    /\ UNCHANGED <<store, env, kojihub, st_queue, st_build, st_info, st_tx, st_exc, st_obs,
                   sg_vars, sg_obs>>

\* The sleep is over: while True goes round.
StatusWake ==
    /\ st_pc = "sleep"
    /\ st_pc' = "fetch"
    /\ UNCHANGED <<store, env, kojihub, st_queue, st_build, st_info, st_tx, st_exc, st_obs,
                   sg_vars, sg_obs>>

check_build_status ==
    \/ StatusFetch
    \/ StatusDispatch
    \/ StatusSave
    \/ StatusPackage
    \/ StatusCommit
    \/ StatusLoopEnd
    \/ StatusWake

\* ------------------------------------------------------------ sign_unsigned_builds
\* One koji or signer call of the running atomic_sign_unsigned_builds.
Call(op, t, r, sig) == [op |-> op, task |-> t, rpm |-> r, had_sig |-> sig]

\* Mutant of SkipsSigning: the continue leaves the iteration of every rpm.
SkipsSigningAlways(sig) == TRUE

\* for rpm_sig in rpm_sigs: if rpm_sig["sigkey"] == settings.sigul_key_id:
\* continue.  The continue goes on with the loop over rpm_sigs it stands in,
\* so the statements after that loop run whatever signatures the rpm has.
SkipsSigning(sig) == FALSE

\* Mutant of RecordsSignature: writeSignedRPM stands before the await.
RecordsSignatureAlways(signer_ok) == TRUE

\* await sign_koji_package(nvr_arch) comes before writeSignedRPM: the
\* signature is recorded only when the signer returned.
RecordsSignature(signer_ok) == signer_ok

\* The synchronous stretch of atomic_sign_unsigned_builds from the head of
\* the loop over build_tasks (EnterTask) or over build_rpms (EnterRpm) to
\* the next await: sign_koji_package for an rpm, or build.save() after the
\* loops.  k carries what the stretch changes: tagged, should_tag, calls.
RECURSIVE EnterTask(_, _, _), EnterRpm(_, _, _, _)
EnterTask(b, t, k) ==
    IF t > NumTasks
    THEN [k EXCEPT !.pc = "save", !.task = 0, !.rpm = 0]
    ELSE LET st == k.should_tag /\ ~k.tagged[<<b, t>>]
             k1 == [k EXCEPT !.should_tag = st,
                             !.tagged = IF st THEN [@ EXCEPT ![<<b, t>>] = TRUE] ELSE @,
                             !.calls = IF st THEN Append(@, Call("tagBuild", t, 0, FALSE)) ELSE @]
         IN EnterRpm(b, t, 1, k1)

EnterRpm(b, t, r, k) ==
    IF r > NumRpms
    THEN EnterTask(b, t + 1, k)
    ELSE IF SkipsSigning(has_sig[<<b, t, r>>])
    THEN EnterRpm(b, t, r + 1, k)
    ELSE [k EXCEPT !.pc = "signing", !.task = t, !.rpm = r,
                   !.calls = Append(@, Call("sign", t, r, has_sig[<<b, t, r>>]))]

\* The stretch's result goes to the variables.
SignGoes(k) ==
    /\ sg_pc' = k.pc
    /\ sg_task' = k.task
    /\ sg_rpm' = k.rpm
    /\ should_tag' = k.should_tag
    /\ tagged' = k.tagged
    /\ calls' = k.calls

\* Mutant of SignStart: the loop is entered whatever settings.disable_sigul is.
SignStartIgnoresFlag ==
    /\ sg_pc = "start"
    /\ sg_pc' = "fetch"
    /\ UNCHANGED <<store, env, kojihub, st_vars, st_obs, sg_queue, sg_build, sg_tx,
                   sg_task, sg_rpm, should_tag, sg_obs>>

\* if not settings.disable_sigul: while True: ...
SignStart ==
    /\ sg_pc = "start"
    /\ sg_pc' = IF disable_sigul THEN "exit" ELSE "fetch"
    /\ UNCHANGED <<store, env, kojihub, st_vars, st_obs, sg_queue, sg_build, sg_tx,
                   sg_task, sg_rpm, should_tag, sg_obs>>

\* Mutant of SignCandidates: the query lacks status=BuildStatus.SUCCEEDED.
SignCandidatesAnyStatus == {b \in Builds : ~signed[b]}

\* builds = await Build.filter(signed=False, status=BuildStatus.SUCCEEDED)
\*     .prefetch_related("package").all()
SignCandidates == {b \in Builds : ~signed[b] /\ status[b] = SUCCEEDED}

SignFetch ==
    /\ sg_pc = "fetch"
    /\ \E q \in Perms(SignCandidates) :
          sg_queue' = [i \in 1..Len(q) |-> BuildObj(q[i])]
    /\ sg_pc' = "loop"
    /\ sg_selected' = SignCandidates
    /\ sg_dispatched' = {}
    /\ sg_raised' = NoRaise
    /\ UNCHANGED <<store, env, kojihub, st_vars, st_obs, sg_build, sg_tx, sg_task, sg_rpm,
                   should_tag, calls>>

\* An exception leaves atomic_sign_unsigned_builds: @atomic() rolls the
\* transaction back, and the except clause around the for loop drops the
\* builds that were still to come.  What koji and the signer already did
\* stays done.
SignRaise(b) ==
    /\ UNCHANGED <<status, signed, last_build>>
    /\ sg_tx' = NoTx
    /\ sg_build' = NoBuild
    /\ sg_queue' = <<>>
    /\ sg_pc' = "sleep"
    /\ sg_task' = 0
    /\ sg_rpm' = 0
    /\ should_tag' = FALSE
    /\ calls' = <<>>
    /\ sg_raised' = [id |-> b, at |-> sg_pc]

\* for build in builds: await atomic_sign_unsigned_builds(build), up to its
\* first await.  rpc = "error": packageListAdd raises.
SignDispatch ==
    /\ sg_pc = "loop"
    /\ sg_queue # <<>>
    /\ LET build == Head(sg_queue)
           b == build.id
       IN
       /\ sg_dispatched' = sg_dispatched \cup {b}
       /\ \E rpc \in {"ok", "error"} :
          IF rpc = "error"
          THEN /\ koji_id[b] # 0
               /\ SignRaise(b)
               /\ UNCHANGED <<tagged, listed>>
          ELSE /\ sg_queue' = Tail(sg_queue)
               /\ sg_build' = build
               /\ sg_tx' = NoTx
               /\ sg_raised' = sg_raised
               /\ UNCHANGED <<status, signed, last_build>>
               /\ IF koji_id[b] # 0
                  THEN /\ listed' = listed \cup {package_id(b)}
                       /\ SignGoes(EnterTask(b, 1,
                             [pc |-> "task", task |-> 0, rpm |-> 0, should_tag |-> TRUE,
                              tagged |-> tagged,
                              calls |-> <<Call("packageListAdd", 0, 0, FALSE)>>]))
                  ELSE /\ sg_pc' = "save"
                       /\ calls' = <<>>
                       /\ UNCHANGED <<sg_task, sg_rpm, should_tag, tagged, listed>>
    /\ UNCHANGED <<koji_id, mbs_id, env, has_sig, st_vars, st_obs, sg_selected>>

\* await sign_koji_package(nvr_arch) is over.  signer_ok: it returned, and
\* koji_session.writeSignedRPM(nvr_arch, settings.sigul_key_id) follows, then
\* the loops go on to the next await.  Otherwise it raised.
SignerReturns ==
    /\ sg_pc = "signing"
    /\ LET b == sg_build.id
           x == <<b, sg_task, sg_rpm>>
       IN
       \E signer_ok \in BOOLEAN :
          /\ has_sig' = IF RecordsSignature(signer_ok)
                        THEN [has_sig EXCEPT ![x] = TRUE] ELSE has_sig
          /\ IF signer_ok
             THEN /\ SignGoes(EnterRpm(b, sg_task, sg_rpm + 1,
                        [pc |-> "rpm", task |-> sg_task, rpm |-> sg_rpm,
                         should_tag |-> should_tag, tagged |-> tagged,
                         calls |-> Append(calls, Call("writeSignedRPM", sg_task, sg_rpm,
                                                      has_sig[x]))]))
                  /\ UNCHANGED <<status, signed, last_build, sg_queue, sg_build, sg_tx,
                                 sg_raised>>
             ELSE /\ SignRaise(b)
                  /\ UNCHANGED tagged
    /\ UNCHANGED <<koji_id, mbs_id, env, listed, st_vars, st_obs, sg_selected, sg_dispatched>>

\* Mutant of SignSave: build.signed = True stands inside if build.koji_id.
SignSaveKojiOnly ==
    /\ sg_pc = "save"
    /\ sg_build' = [sg_build EXCEPT !.signed = (koji_id[sg_build.id] # 0)]
    /\ sg_tx' = [sg_tx EXCEPT !.build = sg_build']
    /\ sg_pc' = "commit"
    /\ UNCHANGED <<store, env, kojihub, st_vars, st_obs, sg_queue, sg_task, sg_rpm,
                   should_tag, sg_obs>>

\* build.signed = True; await build.save(): the whole row of the object
\* goes to the transaction.
SignSave ==
    /\ sg_pc = "save"
    /\ sg_build' = [sg_build EXCEPT !.signed = TRUE]
    /\ sg_tx' = [sg_tx EXCEPT !.build = sg_build']
    /\ sg_pc' = "commit"
    /\ UNCHANGED <<store, env, kojihub, st_vars, st_obs, sg_queue, sg_task, sg_rpm,
                   should_tag, sg_obs>>

\* atomic_sign_unsigned_builds returns: @atomic() commits.
SignCommit ==
    /\ sg_pc = "commit"
    /\ CommitBuild(sg_tx)
    /\ sg_tx' = NoTx
    /\ sg_build' = NoBuild
    /\ sg_pc' = "loop"
    /\ should_tag' = FALSE
    /\ calls' = <<>>
    /\ UNCHANGED <<last_build, koji_id, mbs_id, env, kojihub, st_vars, st_obs, sg_queue,
                   sg_task, sg_rpm, sg_selected, sg_dispatched, sg_raised>>

\* The for loop is over: await asyncio.sleep(60 * 5).
SignLoopEnd ==
    /\ sg_pc = "loop"
    /\ sg_queue = <<>>
    /\ sg_pc' = "sleep"
    /\ UNCHANGED <<store, env, kojihub, st_vars, st_obs, sg_queue, sg_build, sg_tx,
                   sg_task, sg_rpm, should_tag, sg_obs>>

\* The sleep is over: while True goes round.
SignWake ==
    /\ sg_pc = "sleep"
    /\ sg_pc' = "fetch"
    /\ UNCHANGED <<store, env, kojihub, st_vars, st_obs, sg_queue, sg_build, sg_tx,
                   sg_task, sg_rpm, should_tag, sg_obs>>

sign_unsigned_builds ==
    \/ SignStart
    \/ SignFetch
    \/ SignDispatch
    \/ SignerReturns
    \/ SignSave
    \/ SignCommit
    \/ SignLoopEnd
    \/ SignWake

\* ------------------------------------------------------------ specification
Environment ==
    \/ \E b \in Builds : BackendAdvance(b)
    \/ Tick

Next ==
    \/ check_build_status
    \/ sign_unsigned_builds
    \/ Environment

Spec == Init /\ [][Next]_vars

\* The Signing Coordinator called on its own, as a test of
\* atomic_sign_unsigned_builds calls it: on any Build that has SUCCEEDED,
\* whatever its signed flag.
CoordinatorInit ==
    /\ status = [b \in Builds |-> SUCCEEDED]
    /\ signed = [b \in Builds |-> FALSE]
    /\ last_build = [p \in Packages |-> 1]
    /\ koji_id \in [Builds -> 0..1]
    /\ mbs_id = [b \in Builds |-> 1 - koji_id[b]]
    /\ now = 1
    /\ backend_state = [b \in Builds |-> IF koji_id[b] # 0 THEN "CLOSED" ELSE "ready"]
    /\ tagged = [x \in TaskRefs |-> FALSE]
    /\ has_sig = [x \in RpmRefs |-> FALSE]
    /\ listed = {}
    /\ disable_sigul = FALSE
    /\ st_pc = "sleep" /\ st_queue = <<>> /\ st_build = NoBuild /\ st_tx = NoTx
    /\ st_info = "none" /\ st_exc = FALSE
    /\ sg_pc = "sleep" /\ sg_queue = <<>> /\ sg_build = NoBuild /\ sg_tx = NoTx
    /\ sg_task = 0 /\ sg_rpm = 0 /\ should_tag = FALSE
    /\ calls = <<>>
    /\ st_selected = {} /\ st_dispatched = {} /\ st_raised = NoRaise
    /\ sg_selected = {} /\ sg_dispatched = {} /\ sg_raised = NoRaise

\* await atomic_sign_unsigned_builds(build) for a Build just read.
CoordinatorInvoke(b) ==
    /\ sg_pc \in {"sleep", "loop"}
    /\ sg_queue = <<>>
    /\ sg_queue' = <<BuildObj(b)>>
    /\ sg_pc' = "loop"
    /\ sg_selected' = {b}
    /\ sg_dispatched' = {}
    /\ sg_raised' = NoRaise
    /\ UNCHANGED <<store, env, kojihub, st_vars, st_obs, sg_build, sg_tx, sg_task, sg_rpm,
                   should_tag, calls>>

CoordinatorNext ==
    \/ \E b \in Builds : CoordinatorInvoke(b)
    \/ SignDispatch
    \/ SignerReturns
    \/ SignSave
    \/ SignCommit

CoordinatorSpec == CoordinatorInit /\ [][CoordinatorNext]_vars

\* The event loop runs every coroutine that can go on: a sleep ends, an
\* awaited call returns or raises.
FairSpec == Spec /\ WF_vars(check_build_status) /\ WF_vars(sign_unsigned_builds)

\* ------------------------------------------------------------ properties

\* C1: in every reachable state, every Build with signed = true has
\* status = SUCCEEDED.
C1_SignedImpliesSucceeded == \A b \in Builds : signed[b] => status[b] = SUCCEEDED

\* A Build is signed after a signing unit of the same cycle raised.
C1_Witness == \E b \in Builds : signed[b] /\ sg_raised.id # 0

\* C2: a persisted terminal status never changes again, and the status
\* cycle commits a status only onto a Build that is BUILDING in the store.
C2_TerminalAbsorbing ==
    [][/\ \A b \in Builds : status[b] \in TerminalStatus => status'[b] = status[b]
       /\ (st_pc = "commit" /\ st_tx.build.id # 0) => status[st_tx.build.id] = BUILDING]_vars

\* The signing cycle is about to commit its whole-row save onto a Build
\* whose persisted status is terminal.
C2_Witness ==
    /\ sg_pc = "commit"
    /\ sg_tx.build.id # 0
    /\ status[sg_tx.build.id] \in TerminalStatus

\* C3: a BUILDING Build whose backend reports a terminal state eventually
\* has the corresponding terminal status, while the status cycle keeps
\* running (FairSpec).  A Build whose own unit of work raised is let off:
\* the claim is about the Builds whose backend does answer.
C3_Convergence ==
    \A b \in Builds :
        LET reports_terminal ==
                backend_state[b] \in {"CLOSED", "CANCELED", "FAILED_BuildError",
                                      "FAILED_Fault", "FAILED_GenericError", "ready", "failed"}
            corresponding ==
                CASE backend_state[b] \in {"CLOSED", "ready"} -> SUCCEEDED
                  [] backend_state[b] \in {"FAILED_BuildError", "FAILED_Fault", "failed"} -> FAILED
                  [] backend_state[b] \in {"CANCELED", "FAILED_GenericError"} -> CANCELLED
                  [] OTHER -> BUILDING
        IN [](reports_terminal /\ status[b] = BUILDING
                 => <>(status[b] = corresponding \/ st_raised.id = b))

\* C5: every candidate Build is dispatched again and again: a Build that is
\* a candidate of the status cycle, or of the signing cycle when signing is
\* on, is eventually among the Builds its cycle has dispatched (the set is
\* emptied at every fetch).
C5_NoStarvation ==
    \A b \in Builds :
        /\ [](b \in StatusCandidates => <>(b \in st_dispatched))
        /\ [](b \in SignCandidates /\ ~disable_sigul => <>(b \in sg_dispatched))

\* C4: when a cycle goes to sleep, every Build it selected has been
\* dispatched, whatever raised on the way.
C4_PerUnitIsolation ==
    /\ st_pc = "sleep" => st_selected \subseteq st_dispatched
    /\ sg_pc = "sleep" => sg_selected \subseteq sg_dispatched

\* C6: the signer is invoked for an artifact only if the artifact has no
\* signature under the configured key.
C6_SignsOnlyUnsigned ==
    \A i \in DOMAIN calls : calls[i].op = "sign" => ~calls[i].had_sig

\* C7: an invocation of the Signing Coordinator on a Build whose earlier
\* invocation completed (its signed flag is persisted) invokes neither the
\* signer nor the tag operation.
C7_SecondPassIdle ==
    (sg_build.id # 0 /\ signed[sg_build.id])
        => \A i \in DOMAIN calls : calls[i].op \notin {"sign", "tagBuild"}

\* The step in which the awaited signer raises.
SignerFails == sg_pc = "signing" /\ sg_pc' = "sleep"

\* C8: when the signer fails for an artifact, the Build's persisted signed
\* flag stays false and the artifact's signature record is not written; the
\* Build stays a candidate through the sleep and is in the next fetch.
C8_SignerFailure ==
    [][/\ SignerFails =>
             /\ ~signed'[sg_build.id]
             /\ has_sig'[<<sg_build.id, sg_task, sg_rpm>>] = has_sig[<<sg_build.id, sg_task, sg_rpm>>]
             /\ sg_raised' = [id |-> sg_build.id, at |-> "signing"]
       /\ (sg_raised'.at = "signing" /\ sg_pc' \in {"sleep", "fetch"})
             => sg_raised'.id \in SignCandidates'
       /\ (sg_raised.at = "signing" /\ sg_pc = "fetch" /\ sg_pc' = "loop")
             => sg_raised.id \in sg_selected']_vars

\* The signer has failed on the second artifact of a Build whose first
\* artifact it had signed.
C8_Witness ==
    /\ sg_pc = "sleep"
    /\ sg_raised.at = "signing"
    /\ has_sig[<<sg_raised.id, 1, 1>>]
    /\ ~has_sig[<<sg_raised.id, NumTasks, NumRpms>>]

\* C9: only the commit of a Status Reconciler unit changes a persisted
\* status or last_build, so a unit that raises leaves both as they were;
\* and SUCCEEDED is never persisted without the package's last_build.
C9_RollbackLeavesNoTrace ==
    [][/\ st_pc # "commit" => (status' = status /\ last_build' = last_build)
       /\ \A b \in Builds : status'[b] = SUCCEEDED => last_build'[package_id(b)] # 0]_vars

\* The Package lookup raised after the SUCCEEDED status was saved, and the
\* Build is still BUILDING in the store.
C9_Witness ==
    /\ st_raised.at = "package"
    /\ status[st_raised.id] = BUILDING
    /\ last_build[package_id(st_raised.id)] = 0

\* The step in which a Status Reconciler unit commits.
StatusCommits == st_pc = "commit" /\ st_pc' = "loop"

\* C10: what a unit of a task-backed BUILDING Build commits, by the task
\* state it read: CLOSED gives SUCCEEDED, CANCELED gives CANCELLED, FAILED
\* gives FAILED when getTaskResult raises BuildError or Fault and CANCELLED
\* when it raises GenericError; any other state leaves BUILDING, and the
\* Build is a candidate of the next cycle.
C10_TaskStatusMapping ==
    [][(StatusCommits /\ koji_id[st_build.id] # 0) =>
          LET b == st_build.id IN
          /\ st_info = "CLOSED" => status'[b] = SUCCEEDED
          /\ st_info = "CANCELED" => status'[b] = CANCELLED
          /\ st_info \in {"FAILED_BuildError", "FAILED_Fault"} => status'[b] = FAILED
          /\ st_info = "FAILED_GenericError" => status'[b] = CANCELLED
          /\ st_info = "OPEN" => (status'[b] = BUILDING /\ b \in StatusCandidates')]_vars

\* A task-backed Build was committed as CANCELLED for a FAILED task whose
\* result raises GenericError.
C10_Witness ==
    \E b \in Builds :
        /\ koji_id[b] # 0
        /\ status[b] = CANCELLED
        /\ backend_state[b] = "FAILED_GenericError"

\* C11: what a unit of a module-backed BUILDING Build commits, by the
\* state_name it read: ready gives SUCCEEDED and the package's last_build is
\* set to the time of the unit; failed gives FAILED; any other state leaves
\* the rows as they are; the Build's signed flag is false afterwards.
C11_ModuleStatusMapping ==
    [][(StatusCommits /\ koji_id[st_build.id] = 0 /\ mbs_id[st_build.id] # 0) =>
          LET b == st_build.id
              p == package_id(b)
          IN
          /\ st_info = "ready" =>
                /\ status'[b] = SUCCEEDED
                /\ last_build'[p] \in 1..now
                /\ last_build'[p] >= last_build[p]
          /\ st_info = "failed" => (status'[b] = FAILED /\ last_build' = last_build)
          /\ st_info = "build" => (status'[b] = BUILDING /\ last_build' = last_build)
          /\ ~signed'[b]]_vars

\* A module-backed Build was committed as FAILED and another as SUCCEEDED
\* with its package's last_build set.
C11_Witness ==
    \E b, c \in Builds :
        /\ koji_id[b] = 0 /\ status[b] = FAILED /\ ~signed[b]
        /\ koji_id[c] = 0 /\ status[c] = SUCCEEDED /\ last_build[package_id(c)] # 0

\* C12: while settings.disable_sigul is set, the signing cycle makes no
\* packageListAdd, tagBuild, signer or writeSignedRPM call and no signed flag
\* changes; the status cycle goes on as without the flag.
C12_SigningDisabled ==
    disable_sigul =>
        /\ calls = <<>>
        /\ listed = {}
        /\ \A x \in TaskRefs : ~tagged[x]
        /\ \A x \in RpmRefs : ~has_sig[x]
        /\ \A b \in Builds : ~signed[b]
        /\ sg_build = NoBuild /\ sg_queue = <<>>

\* Signing is disabled, sign_unsigned_builds has returned, and the status
\* cycle has committed a SUCCEEDED task-backed Build.
C12_Witness ==
    /\ disable_sigul
    /\ sg_pc = "exit"
    /\ \E b \in Builds : koji_id[b] # 0 /\ status[b] = SUCCEEDED

\* C13: in the calls of one Signing Coordinator invocation no tagBuild
\* comes after a signer invocation or a writeSignedRPM.
C13_TagBeforeSign ==
    \A i, j \in DOMAIN calls :
        (i < j /\ calls[i].op \in {"sign", "writeSignedRPM"}) => calls[j].op # "tagBuild"

\* C14: the two cycles never have the same Build in a unit of work at the
\* same time, their candidate sets are disjoint, and no Build object that a
\* cycle holds (waiting in its batch, or in its running unit apart from the
\* field the unit sets) is older than the committed row.
C14_NoConcurrentUnits ==
    /\ (st_build.id # 0 /\ sg_build.id # 0) => st_build.id # sg_build.id
    /\ StatusCandidates \cap SignCandidates = {}
    /\ \A i \in DOMAIN st_queue : st_queue[i] = BuildObj(st_queue[i].id)
    /\ \A i \in DOMAIN sg_queue : sg_queue[i] = BuildObj(sg_queue[i].id)
    /\ st_build.id # 0 => (st_build.signed = signed[st_build.id] /\ status[st_build.id] = BUILDING)
    /\ sg_build.id # 0 => (sg_build.status = status[sg_build.id] /\ ~signed[sg_build.id])

\* A status unit and a signing unit are under way at the same time.
C14_Witness ==
    /\ st_build.id # 0 /\ st_pc \in {"save", "package", "commit"}
    /\ sg_build.id # 0 /\ sg_pc \in {"signing", "save", "commit"}

\* C15: once a Build's persisted signed flag is true it stays true.
C15_SignedMonotonic == [][\A b \in Builds : signed[b] => signed'[b]]_vars

\* A Build is signed while the status cycle is about to commit the
\* whole-row save of another Build.
C15_Witness ==
    /\ \E b \in Builds : signed[b]
    /\ st_pc = "commit" /\ st_tx.build.id # 0

\* C16: a package's last_build changes only in the commit of a status unit
\* that moves one of the package's Builds from BUILDING to SUCCEEDED, and a
\* unit holds a last_build write only beside a SUCCEEDED status.
C16_LastBuildOnlyOnSuccess ==
    [][/\ \A p \in Packages :
             last_build'[p] # last_build[p] =>
                 /\ StatusCommits
                 /\ package_id(st_build.id) = p
                 /\ status[st_build.id] = BUILDING
                 /\ status'[st_build.id] = SUCCEEDED
       /\ st_tx'.last_build # -1 => st_tx'.build.status = SUCCEEDED
       /\ sg_tx'.last_build = -1]_vars

\* One package has its last_build; a Build of another package was committed
\* as FAILED or CANCELLED and that package's last_build is still null.
C16_Witness ==
    \E b, c \in Builds :
        /\ status[b] = SUCCEEDED /\ last_build[package_id(b)] # 0
        /\ status[c] \in {FAILED, CANCELLED} /\ last_build[package_id(c)] = 0

\* C17: when a Signing Coordinator invocation of a task-backed Build is
\* about to commit signed = true, every build task of the Build is in the
\* compose tag.
C17_TagCompleteness ==
    (sg_pc = "commit" /\ koji_id[sg_build.id] # 0)
        => \A t \in Tasks : tagged[<<sg_build.id, t>>]

\* C18: a task-backed Build with persisted signed = true has a signature
\* record under the configured key for every rpm of every build task; an
\* invocation that raises leaves signed false.
C18_SignedAfterAllArtifacts ==
    /\ \A b \in Builds :
          (koji_id[b] # 0 /\ signed[b]) => \A t \in Tasks, r \in Rpms : has_sig[<<b, t, r>>]
    /\ sg_raised.id # 0 => ~signed[sg_raised.id]

\* A task-backed Build is signed, and the cycle's latest invocation raised
\* at the signer (and left its Build unsigned).
C18_Witness ==
    \E b \in Builds :
        /\ koji_id[b] # 0
        /\ signed[b]
        /\ sg_pc = "sleep"
        /\ sg_raised.at = "signing"

\* The step in which a Signing Coordinator invocation commits.
SignCommits == sg_pc = "commit" /\ sg_pc' = "loop"

C20_FailedWithoutError ==
    [][(StatusCommits /\ koji_id[st_build.id] # 0 /\ st_info \in KojiFailed) =>
          LET b == st_build.id IN
          /\ status'[b] \in {FAILED, CANCELLED} <=> st_info # "FAILED_NoError"
          /\ st_info = "FAILED_NoError" =>
                /\ st_tx.build = [id |-> b, status |-> BUILDING, signed |-> FALSE]
                /\ status'[b] = BUILDING
                /\ b \in StatusCandidates']_vars

\* A unit has saved a Build, still BUILDING, whose FAILED task's result
\* raised nothing, and is about to commit.
C20_Witness ==
    /\ st_pc = "commit"
    /\ st_info = "FAILED_NoError"
    /\ st_tx.build.id # 0
    /\ st_tx.build.status = BUILDING

====
